---- MODULE Spec2Model ----
(***************************************************************************)
(* Model of the demand-forecast backend: the sales store behind the        *)
(* SQLAlchemy sessions (database.py, models.py), the two ingestion paths   *)
(* (main.upload_sales and forecast_engine.process_sales_and_forecast),     *)
(* the forecast writer (_generate_forecast), the column resolver and       *)
(* utils.parse_date.                                                       *)
(*                                                                         *)
(* Calendar days of the store are day numbers (integers >= 1).  A session  *)
(* is the record [products, sales, forecasts, pending]: the first three    *)
(* fields are what the session's queries return (committed rows plus the   *)
(* rows it has flushed in its open transaction), pending is the sequence   *)
(* of objects added with db.add and not flushed yet (the sessions are made *)
(* with autoflush=False, database.py:24, so queries do not see them).      *)
(***************************************************************************)
EXTENDS Integers, Sequences, FiniteSets, TLC

VARIABLES committed, db, result, calls, colsIn, colsOut, dateIn, dateOut,
          dashOut, requests, writer, ACTIVE_SESSIONS, users, gate

vars == <<committed, db, result, calls, colsIn, colsOut, dateIn, dateOut,
          dashOut, requests, writer, ACTIVE_SESSIONS, users, gate>>

\* dashOut is the last response of main.dashboard.  requests and writer are
\* the ingestion requests in flight and the request that holds SQLite's
\* write lock (0: none).  ACTIVE_SESSIONS is the dict of main.py, users the
\* users table, gate the record of the last request that went through
\* get_current_user_id, login or logout.
dashVars == <<dashOut>>
concVars == <<requests, writer>>
authVars == <<ACTIVE_SESSIONS, users, gate>>

NoDashboard == [done |-> FALSE]
NoGate == [op |-> "none"]

IdleDash == dashOut = NoDashboard
IdleConc == requests = <<>> /\ writer = 0
IdleAuth == ACTIVE_SESSIONS = [u \in {} |-> 0] /\ users = {} /\ gate = NoGate

(***************************************************************************)
(* Program constants.                                                      *)
(***************************************************************************)
MinHistoryDays == 30
MinForecastPoints == 30
ForecastPeriods == 30
TailRows == 30
ProcessDefaultStock == 100
UploadDefaultStock == 0
UploadDefaultPrice == 100
RequiredFields == 5

\* parse_date's None and a quantity cell float() cannot convert.
NoDate == 0
BadQty == -1

(***************************************************************************)
(* Bounds of the model.                                                    *)
(***************************************************************************)
MaxCalls == 2

(***************************************************************************)
(* Small helpers.                                                          *)
(***************************************************************************)
Max(S) == CHOOSE x \in S : \A y \in S : y <= x
Min(S) == CHOOSE x \in S : \A y \in S : x <= y

\* The elements of a set of integers in ascending order.
RECURSIVE SortedSeq(_)
SortedSeq(S) == IF S = {} THEN <<>> ELSE <<Min(S)>> \o SortedSeq(S \ {Min(S)})

LastN(seq, n) ==
    IF Len(seq) <= n THEN seq ELSE SubSeq(seq, Len(seq) - n + 1, Len(seq))

SeqRange(seq) == {seq[i] : i \in DOMAIN seq}

\* pandas unique(): the distinct values in order of first appearance.
Unique(seq) ==
    LET firsts == SelectSeq([i \in DOMAIN seq |-> i],
                            LAMBDA i : \A j \in 1..(i - 1) : seq[j] # seq[i])
    IN [k \in DOMAIN firsts |-> seq[firsts[k]]]

(***************************************************************************)
(* The store and the session.                                              *)
(***************************************************************************)
EmptyStore == [products |-> {}, sales |-> {}, forecasts |-> {}]

StoreOf(s) == [products |-> s.products, sales |-> s.sales, forecasts |-> s.forecasts]

\* SessionLocal(): a new session reads the committed rows and holds nothing.
SessionLocal(store) ==
    [products |-> store.products, sales |-> store.sales,
     forecasts |-> store.forecasts, pending |-> <<>>]

\* The integer primary keys of models.py: SQLite hands out max(rowid) + 1.
NextId(rows) == IF rows = {} THEN 1 ELSE Max({r.id : r \in rows}) + 1

\* The INSERTs of a flush, in the order the objects were added.
InsertSales(sales, pend) ==
    LET base == NextId(sales) - 1
    IN sales \cup {[id |-> base + i, user_id |-> pend[i].user_id,
                    product_id |-> pend[i].product_id, date |-> pend[i].date,
                    quantity_sold |-> pend[i].quantity_sold] : i \in DOMAIN pend}

\* db.flush(): every pending object is written into the open transaction.
Flush(s) == [s EXCEPT !.sales = InsertSales(s.sales, s.pending), !.pending = <<>>]

AddSale_DecrementsStock(s, sale) ==
    [s EXCEPT !.pending = Append(s.pending, sale),
              !.products = {IF p.id = sale.product_id
                            THEN [p EXCEPT !.current_stock = @ - sale.quantity_sold]
                            ELSE p : p \in s.products}]

\* db.add(obj) for a sale: pending until the next flush.
AddSale(s, sale) == [s EXCEPT !.pending = Append(s.pending, sale)]

AddProductAndFlush_Twice(s, user_id, sku, stock, price) ==
    LET f == Flush(s)
    IN [f EXCEPT !.products = f.products \cup
            {[id |-> NextId(f.products) + k, user_id |-> user_id, sku |-> sku,
              current_stock |-> stock, unit_price |-> price] : k \in {0, 1}}]

\* db.add(product); db.flush()
AddProductAndFlush(s, user_id, sku, stock, price) ==
    LET f == Flush(s)
    IN [f EXCEPT !.products = f.products \cup
            {[id |-> NextId(f.products), user_id |-> user_id, sku |-> sku,
              current_stock |-> stock, unit_price |-> price]}]

ProductsFor_AnyUser(s, user_id, sku) == {p \in s.products : p.sku = sku}

\* db.query(Product).filter_by(user_id=..., sku=...).first()
ProductsFor(s, user_id, sku) ==
    {p \in s.products : p.user_id = user_id /\ p.sku = sku}

FirstProduct(s, user_id, sku) ==
    CHOOSE p \in ProductsFor(s, user_id, sku) :
        \A q \in ProductsFor(s, user_id, sku) : p.id <= q.id

\* The session holds an open write transaction (rows flushed, not committed).
HasOpenWrites(s) == StoreOf(s) # committed

(***************************************************************************)
(* The uploads the model draws from.  A row is one CSV line after the      *)
(* columns are resolved: the SKU, the parsed date (NoDate when parse_date  *)
(* returned None), the quantity cell and the price cell.  All rows of one  *)
(* SKU carry one price.                                                    *)
(***************************************************************************)
Row(sku, date, qty) ==
    [sku |-> sku, date |-> date, qty |-> qty,
     price |-> IF sku = "A" THEN 20 ELSE 50]

\* One row per day lo..hi for one SKU.
Seg(sku, lo, hi, qty) == [i \in 1..(hi - lo + 1) |-> Row(sku, lo + i - 1, qty)]

Half == MinHistoryDays \div 2

BatchIds == 1..11

BatchOf(b) ==
    CASE b = 1 -> Seg("A", 1, MinHistoryDays, 2)
      [] b = 2 -> Seg("A", 1, Half, 3)
      [] b = 3 -> Seg("A", Half + 1, Half + MinHistoryDays, 1)
      [] b = 4 -> Seg("A", 1, MinHistoryDays, 2) \o Seg("B", 1, Half, 2)
      [] b = 5 -> Seg("B", 1, MinHistoryDays, 0)
      [] b = 6 -> Seg("A", 1, MinHistoryDays, 2) \o <<Row("A", MinHistoryDays, 7)>>
      [] b = 7 -> Seg("A", 1, Half, 2) \o <<Row("A", Half + 1, BadQty)>>
                      \o Seg("A", Half + 2, MinHistoryDays, 2)
      [] b = 8 -> <<Row("A", NoDate, 4)>> \o Seg("A", 1, MinHistoryDays, 2)
      [] b = 9 -> Seg("A", 1, Half, 2) \o Seg("A", Half + 6, MinHistoryDays + 5, 2)
      [] b = 10 -> <<Row("A", 1, 1), Row("A", 1, 5)>>
      [] b = 11 -> <<Row("A", 1, 1), Row("B", 1, 1), Row("A", 1, 5)>>

\* The (user, upload) pairs a call is made with.
CallInputs == ({1} \X BatchIds) \cup ({2} \X {1, 5})

\* What the fitted model predicts for the i-th future day: level + trend * i.
YhatModels == {[level |-> 0, trend |-> 0], [level |-> 10, trend |-> -1]}

Yhat(yh, i) == yh.level + yh.trend * i

(***************************************************************************)
(* forecast_engine._generate_forecast                                      *)
(***************************************************************************)
\* db.query(SalesHistory.date, SalesHistory.quantity_sold)
\*   .filter_by(product_id=product_id)
SalesData(s, product_id) == {x \in s.sales : x.product_id = product_id}

MakeFutureDataframe_FromLastDay(dates, periods) ==
    LET lo == Min(dates)
        hi == Max(dates)
        InHistory(d) == d \in dates
    IN SelectSeq([i \in 1..(hi - lo + 1) |-> lo + i - 1], InHistory)
         \o [i \in 1..periods |-> hi + i - 1]

\* Prophet.make_future_dataframe(periods): the distinct history dates in
\* ascending order followed by the `periods` days after the last of them.
MakeFutureDataframe(dates, periods) ==
    LET lo == Min(dates)
        hi == Max(dates)
        InHistory(d) == d \in dates
    IN SelectSeq([i \in 1..(hi - lo + 1) |-> lo + i - 1], InHistory)
         \o [i \in 1..periods |-> hi + i]

\* forecast.tail(30): the last rows of the predicted frame.
ForecastTail(frame) == LastN(frame, TailRows)

Clamp_Unclamped(y) == y

\* max(0, row['yhat'])
Clamp(y) == IF y > 0 THEN y ELSE 0

DeleteForecasts_KeepsOld(forecasts, product_id) == forecasts

\* db.query(Forecast).filter_by(product_id=product_id).delete()
DeleteForecasts(forecasts, product_id) ==
    {f \in forecasts : f.product_id # product_id}

\* The rows added for the tail of the frame, with the keys the commit's
\* flush gives them.
NewForecasts(kept, product_id, tail, last, yh) ==
    LET base == NextId(kept) - 1
    IN {[id |-> base + i, product_id |-> product_id, forecast_date |-> tail[i],
         predicted_quantity |-> Clamp(Yhat(yh, tail[i] - last))] : i \in DOMAIN tail}

\* db.commit(): flush, then the transaction's rows become the committed rows.
Commit(s) == Flush(s)

\* One call of _generate_forecast on session s.  Returns the session after
\* the call, whether the call committed, and what the run did.
GenerateForecastOn(s, product_id, yh, fitRaises) ==
    LET sales_data == SalesData(s, product_id)
        dates == {x.date : x \in sales_data}
    IN IF Cardinality(sales_data) < MinForecastPoints
       THEN [db |-> s, committed |-> FALSE,
             run |-> [product_id |-> product_id, status |-> "skipped",
                      points |-> Cardinality(sales_data), last |-> 0, deleted |-> 0,
                      yhat |-> yh]]
       ELSE IF fitRaises
       THEN [db |-> s, committed |-> FALSE,
             run |-> [product_id |-> product_id, status |-> "fit_error",
                      points |-> Cardinality(sales_data), last |-> Max(dates),
                      deleted |-> 0, yhat |-> yh]]
       ELSE LET frame == MakeFutureDataframe(dates, ForecastPeriods)
                kept == DeleteForecasts(s.forecasts, product_id)
                added == NewForecasts(kept, product_id, ForecastTail(frame),
                                      Max(dates), yh)
                s1 == Commit([s EXCEPT !.forecasts = kept \cup added])
            IN [db |-> s1, committed |-> TRUE,
                run |-> [product_id |-> product_id, status |-> "generated",
                         points |-> Cardinality(sales_data), last |-> Max(dates),
                         deleted |-> Cardinality(s.forecasts) - Cardinality(kept),
                         yhat |-> yh]]

(***************************************************************************)
(* The column resolver of process_sales_and_forecast.  A header is the     *)
(* sequence of its characters; a character written "_x" stands for a       *)
(* Cyrillic letter (str.lower maps "_X" to "_x" as it maps "X" to "x").    *)
(***************************************************************************)
UpperCase == <<"A", "B", "C", "D", "E", "F", "G", "H", "I", "J", "K", "L", "M",
               "N", "O", "P", "Q", "R", "S", "T", "U", "V", "W", "X", "Y", "Z",
               "_A", "_V", "_D", "_K", "_N", "_S", "_T", "_C">>
LowerCase == <<"a", "b", "c", "d", "e", "f", "g", "h", "i", "j", "k", "l", "m",
               "n", "o", "p", "q", "r", "s", "t", "u", "v", "w", "x", "y", "z",
               "_a", "_v", "_d", "_k", "_n", "_s", "_t", "_c">>

LowerChar(c) ==
    IF \E i \in DOMAIN UpperCase : UpperCase[i] = c
    THEN LowerCase[CHOOSE i \in DOMAIN UpperCase : UpperCase[i] = c]
    ELSE c

\* str.lower()
Lower(str) == [i \in DOMAIN str |-> LowerChar(str[i])]

\* str.strip()
RECURSIVE Strip(_)
Strip(str) ==
    IF str = <<>> THEN str
    ELSE IF Head(str) = " " THEN Strip(Tail(str))
    ELSE IF str[Len(str)] = " " THEN Strip(SubSeq(str, 1, Len(str) - 1))
    ELSE str

\* kw in str
Contains(str, kw) ==
    \E i \in 0..(Len(str) - Len(kw)) : SubSeq(str, i + 1, i + Len(kw)) = kw

Fields == {"date", "sku", "name", "quantity", "price"}

\* The keywords of each branch of the if/elif chain.
Keywords(field) ==
    CASE field = "date" -> {<<"_d", "_a", "_t", "_a">>, <<"d", "a", "t", "e">>}
      [] field = "sku" -> {<<"_a", "_r", "_t", "_i", "_k", "_u", "_l">>,
                           <<"s", "k", "u">>, <<"_k", "_o", "_d">>}
      [] field = "name" -> {<<"_t", "_o", "_v", "_a", "_r">>,
                            <<"p", "r", "o", "d", "u", "c", "t">>,
                            <<"_n", "_a", "_z", "_v", "_a", "_n", "_i", "_e">>}
      [] field = "quantity" -> {<<"_k", "_o", "_l">>, <<"q", "t", "y">>,
                                <<"_k", "_o", "_l", "_i", "_ch", "_e", "_s", "_t",
                                  "_v", "_o">>}
      [] field = "price" -> {<<"_c", "_e", "_n", "_a">>,
                             <<"p", "r", "i", "c", "e">>,
                             <<"_s", "_t", "_o", "_i", "_m", "_o", "_s", "_t", "_soft">>}

HasKeyword(col_lower, field) == \E kw \in Keywords(field) : Contains(col_lower, kw)

\* The branch of the if/elif chain a header takes ("" when it takes none).
Classify(col) ==
    LET col_lower == Strip(Lower(col))
    IN IF HasKeyword(col_lower, "date") THEN "date"
       ELSE IF HasKeyword(col_lower, "sku") THEN "sku"
       ELSE IF HasKeyword(col_lower, "name") THEN "name"
       ELSE IF HasKeyword(col_lower, "quantity") THEN "quantity"
       ELSE IF HasKeyword(col_lower, "price") THEN "price"
       ELSE ""

\* column_mapping[field] = col
SetField(mapping, field, col) ==
    [f \in (DOMAIN mapping) \cup {field} |-> IF f = field THEN col ELSE mapping[f]]

\* for col in df.columns: ... ; the mapping after the first n headers.
RECURSIVE ResolvePrefix(_, _)
ResolvePrefix(columns, n) ==
    IF n = 0 THEN [f \in {} |-> <<>>]
    ELSE LET mapping == ResolvePrefix(columns, n - 1)
             field == Classify(columns[n])
         IN IF field = "" THEN mapping ELSE SetField(mapping, field, columns[n])

ResolveColumns(columns) == ResolvePrefix(columns, Len(columns))

\* len(column_mapping) < 5
SchemaFails(mapping) == Cardinality(DOMAIN mapping) < RequiredFields

SchemaErrorFields_Required(mapping) == Fields

\* list(column_mapping.keys()), as the error message names them.
SchemaErrorFields(mapping) == DOMAIN mapping

\* Headers.
H_Date == <<"D", "a", "t", "e">>
H_date_lc == <<"s", "a", "l", "e", " ", "d", "a", "t", "e">>
H_Sku == <<" ", "S", "K", "U", " ">>
H_Kod == <<"_K", "_o", "_d">>
H_Product == <<"P", "r", "o", "d", "u", "c", "t">>
H_Nazvanie == <<"_N", "_a", "_z", "_v", "_a", "_n", "_i", "_e">>
H_Qty == <<"Q", "T", "Y">>
H_Price == <<"p", "r", "i", "c", "e">>
H_ProductPrice == <<"P", "r", "o", "d", "u", "c", "t", " ", "P", "r", "i", "c", "e">>
H_CenaTovara == <<"_C", "_e", "_n", "_a", " ", "_t", "_o", "_v", "_a", "_r", "_a">>
H_Store == <<"S", "t", "o", "r", "e">>

\* The header rows the ingestion calls are made with.
HeaderIds == {1, 2, 3}

HeadersOf(h) ==
    CASE h = 1 -> <<H_Date, H_Sku, H_Product, H_Qty, H_Price>>
      [] h = 2 -> <<H_Qty, H_Store, H_Kod, H_date_lc, H_Nazvanie>>
      [] h = 3 -> <<H_Date, H_Sku, H_Nazvanie, H_Qty, H_CenaTovara>>

(***************************************************************************)
(* What a call reports: the operation, its arguments and its outcome (the  *)
(* value returned or the error raised).                                    *)
(***************************************************************************)
NoResult ==
    [op |-> "none", user |-> 0, batch |-> 0, headers |-> 0, outcome |-> "none",
     found |-> {}, sku |-> "", days |-> 0, rows_loaded |-> 0,
     products_seen |-> {}, runs |-> {}]

(***************************************************************************)
(* forecast_engine.process_sales_and_forecast                              *)
(***************************************************************************)
\* df = df.dropna(subset=[date]) after df[date].apply(parse_date)
DropNoDate(rows) == SelectSeq(rows, LAMBDA r : r.date # NoDate)

\* df[df[sku] == sku]
SkuRows(df, sku) == SelectSeq(df, LAMBDA r : r.sku = sku)

\* df[sku].unique()
SkusInFile(df) == Unique([i \in DOMAIN df |-> df[i].sku])

\* sku_data.sort_values(date).iloc[-1][price]
LastRowPrice(df, sku) ==
    LET rows == SeqRange(SkuRows(df, sku))
    IN (CHOOSE r \in rows : \A q \in rows : q.date <= r.date).price

ExistingDays_AnyProduct(s, product_id) == Cardinality({x.date : x \in s.sales})

\* db.query(SalesHistory.date).filter_by(product_id=product.id).distinct().count()
ExistingDays(s, product_id) == Cardinality({x.date : x \in SalesData(s, product_id)})

\* df[df[sku] == sku][date].nunique()
NewDays(df, sku) == Cardinality({r.date : r \in SeqRange(SkuRows(df, sku))})

\* total_days = existing_days + new_days
TotalDays(existing_days, new_days) == existing_days + new_days

\* The validation loop over skus_in_file, from the k-th SKU on.
RECURSIVE ValidateSkus(_, _, _, _, _)
ValidateSkus(s, user_id, df, skus, k) ==
    IF k > Len(skus) THEN [db |-> s, ok |-> TRUE, sku |-> "", days |-> 0]
    ELSE LET sku == skus[k]
             s1 == IF ProductsFor(s, user_id, sku) = {}
                   THEN AddProductAndFlush(s, user_id, sku, ProcessDefaultStock,
                                           LastRowPrice(df, sku))
                   ELSE s
             product == FirstProduct(s1, user_id, sku)
             total_days == TotalDays(ExistingDays(s1, product.id), NewDays(df, sku))
         IN IF total_days < MinHistoryDays
            THEN [db |-> s1, ok |-> FALSE, sku |-> sku, days |-> total_days]
            ELSE ValidateSkus(s1, user_id, df, skus, k + 1)

\* The saving loop over df.iterrows(): every row before the first one whose
\* quantity float() rejects is added to the session (no flush happens in the
\* loop, so the product each row finds is the one the session had before it).
SaveRows(s, user_id, df) ==
    LET bad == {i \in DOMAIN df : df[i].qty = BadQty}
        n == IF bad = {} THEN Len(df) ELSE Min(bad) - 1
        sale(i) == [user_id |-> user_id,
                    product_id |-> FirstProduct(s, user_id, df[i].sku).id,
                    date |-> df[i].date, quantity_sold |-> df[i].qty]
    IN [db |-> [s EXCEPT !.pending = @ \o [i \in 1..n |-> sale(i)]],
        ok |-> bad = {}, rows_loaded |-> n,
        products_seen |-> {sale(i).product_id : i \in 1..n}]

\* Lines 59 to 115: validation, saving, commit.
Ingest(s, user_id, rows) ==
    LET df == DropNoDate(rows)
        v == ValidateSkus(s, user_id, df, SkusInFile(df), 1)
        sv == SaveRows(v.db, user_id, df)
    IN IF ~v.ok
       THEN [db |-> v.db, outcome |-> "insufficient_history", sku |-> v.sku,
             days |-> v.days, rows_loaded |-> 0, products_seen |-> {}]
       ELSE IF ~sv.ok
       THEN [db |-> sv.db, outcome |-> "value_error", sku |-> "", days |-> 0,
             rows_loaded |-> sv.rows_loaded, products_seen |-> sv.products_seen]
       ELSE [db |-> Commit(sv.db), outcome |-> "ok", sku |-> "", days |-> 0,
             rows_loaded |-> sv.rows_loaded, products_seen |-> sv.products_seen]

\* for product_id in products_seen: _generate_forecast(...), from the k-th
\* product on; the failAt-th call's model fit raises (0: none does).
RECURSIVE ForecastAll(_, _, _, _, _, _, _)
ForecastAll(s, store, pids, yh, failAt, k, runs) ==
    IF k > Len(pids)
    THEN [db |-> s, committed |-> store, runs |-> runs, raised |-> FALSE]
    ELSE LET g == GenerateForecastOn(s, pids[k], yh, failAt = k)
             store1 == IF g.committed THEN StoreOf(g.db) ELSE store
         IN IF g.run.status = "fit_error"
            THEN [db |-> g.db, committed |-> store1, runs |-> runs \cup {g.run},
                  raised |-> TRUE]
            ELSE ForecastAll(g.db, store1, pids, yh, failAt, k + 1,
                             runs \cup {g.run})

ProcessSalesAndForecast ==
    /\ calls < MaxCalls
    /\ calls' = calls + 1
    /\ \E h \in HeaderIds :
         LET column_mapping == ResolveColumns(HeadersOf(h))
         IN \E c \in CallInputs :
              LET call == [NoResult EXCEPT !.op = "process", !.user = c[1],
                                           !.batch = c[2], !.headers = h]
              IN IF SchemaFails(column_mapping)
                 THEN /\ result' = [call EXCEPT
                                      !.outcome = "schema_error",
                                      !.found = SchemaErrorFields(column_mapping)]
                      /\ UNCHANGED <<committed, db>>
                 ELSE LET ing == Ingest(db, c[1], BatchOf(c[2]))
                          done == [call EXCEPT !.outcome = ing.outcome,
                                               !.sku = ing.sku, !.days = ing.days,
                                               !.rows_loaded = ing.rows_loaded,
                                               !.products_seen = ing.products_seen]
                          pids == SortedSeq(ing.products_seen)
                      IN IF ing.outcome # "ok"
                         THEN /\ result' = done
                              /\ db' = ing.db
                              /\ UNCHANGED committed
                         ELSE \E yh \in YhatModels, failAt \in 0..Len(pids) :
                                LET fc == ForecastAll(ing.db, StoreOf(ing.db), pids,
                                                      yh, failAt, 1, {})
                                IN /\ result' = [done EXCEPT
                                                   !.outcome = IF fc.raised
                                                               THEN "fit_error"
                                                               ELSE "ok",
                                                   !.runs = fc.runs]
                                   /\ db' = fc.db
                                   /\ committed' = fc.committed
    /\ UNCHANGED <<colsIn, colsOut, dateIn, dateOut>>
    /\ UNCHANGED <<dashVars, concVars, authVars>>

\* A direct call of _generate_forecast on the session.
GenerateForecast ==
    /\ calls < MaxCalls
    /\ calls' = calls + 1
    /\ \E p \in db.products, yh \in YhatModels, fitRaises \in BOOLEAN :
         LET g == GenerateForecastOn(db, p.id, yh, fitRaises)
         IN /\ db' = g.db
            /\ committed' = IF g.committed THEN StoreOf(g.db) ELSE committed
            /\ result' = [NoResult EXCEPT !.op = "forecast", !.user = p.user_id,
                                          !.outcome = g.run.status,
                                          !.runs = {g.run}]
    /\ UNCHANGED <<colsIn, colsOut, dateIn, dateOut>>
    /\ UNCHANGED <<dashVars, concVars, authVars>>

\* database.get_db's finally: db.close() gives up the open transaction and
\* the pending objects.
CloseSession ==
    /\ db # SessionLocal(committed)
    /\ db' = SessionLocal(committed)
    /\ result' = [NoResult EXCEPT !.op = "close", !.outcome = "closed"]
    /\ UNCHANGED <<committed, calls, colsIn, colsOut, dateIn, dateOut>>
    /\ UNCHANGED <<dashVars, concVars, authVars>>

(***************************************************************************)
(* main.upload_sales, from the point where get_current_user_id has         *)
(* returned user_id.  The handler works on a session of its own (get_db),  *)
(* closed when the request ends.                                           *)
(***************************************************************************)
\* What the request carries besides its rows: a file name that does not end
\* in .csv, a file without one of the required columns, or neither.
UploadForms == {"ok", "not_csv", "missing_columns"}

\* pd.to_datetime(df['date'], format='%Y-%m-%d') and pd.to_numeric raise on
\* a cell they cannot convert.
ConversionRaises(df) ==
    \E i \in DOMAIN df : df[i].date = NoDate \/ df[i].qty = BadQty

\* db.query(SalesHistory).filter(user_id, product_id, date).first()
ExistingSales(s, user_id, product_id, date) ==
    {x \in s.sales : x.user_id = user_id /\ x.product_id = product_id /\ x.date = date}

FirstSale(s, user_id, product_id, date) ==
    CHOOSE x \in ExistingSales(s, user_id, product_id, date) :
        \A y \in ExistingSales(s, user_id, product_id, date) : x.id <= y.id

\* existing_sale.quantity_sold = float(row['quantity_sold'])
UpdateQuantity(s, sale, qty) ==
    [s EXCEPT !.sales = (@ \ {sale}) \cup {[sale EXCEPT !.quantity_sold = qty]}]

\* if existing_sale: update, else: add a new record.
UpsertSale(s, user_id, product_id, date, qty) ==
    IF ExistingSales(s, user_id, product_id, date) # {}
    THEN UpdateQuantity(s, FirstSale(s, user_id, product_id, date), qty)
    ELSE AddSale(s, [user_id |-> user_id, product_id |-> product_id,
                     date |-> date, quantity_sold |-> qty])

\* One pass of the loop body of `for _, row in df.iterrows()`; st is the
\* session with the two counters.
UploadRow(st, user_id, row) ==
    LET isNew == ProductsFor(st.db, user_id, row.sku) = {}
        s1 == IF isNew
              THEN AddProductAndFlush(st.db, user_id, row.sku, UploadDefaultStock,
                                      UploadDefaultPrice)
              ELSE st.db
        product == FirstProduct(s1, user_id, row.sku)
        s2 == UpsertSale(s1, user_id, product.id, row.date, row.qty)
    IN [db |-> s2,
        records_added |-> st.records_added + Len(s2.pending) - Len(s1.pending),
        products_created |-> IF isNew THEN st.products_created + 1
                             ELSE st.products_created]

\* The loop over rows lo..hi in order.  The range is split in halves and the
\* state after the first half is evaluated (the test first = first) before
\* the second half starts, which keeps the evaluation shallow.
RECURSIVE UploadRows(_, _, _, _, _)
UploadRows(st, user_id, df, lo, hi) ==
    IF lo > hi THEN st
    ELSE IF lo = hi THEN UploadRow(st, user_id, df[lo])
    ELSE LET mid == (lo + hi) \div 2
             first == UploadRows(st, user_id, df, lo, mid)
         IN IF first = first THEN UploadRows(first, user_id, df, mid + 1, hi)
            ELSE first

UploadSales ==
    /\ calls < MaxCalls
    /\ calls' = calls + 1
    /\ \E c \in CallInputs, form \in UploadForms :
         LET call == [NoResult EXCEPT !.op = "upload", !.user = c[1], !.batch = c[2]]
             df == BatchOf(c[2])
         IN IF form # "ok"
            THEN \* HTTPException(400), raised before anything is written
                 /\ result' = [call EXCEPT !.outcome = "http_400"]
                 /\ UNCHANGED <<committed, db>>
            ELSE IF ConversionRaises(df) \/ HasOpenWrites(db)
            THEN \* except Exception: db.rollback(); HTTPException(500).  With
                 \* another session's write transaction open, SQLite refuses
                 \* this session's first write.
                 /\ result' = [call EXCEPT !.outcome = "http_500"]
                 /\ UNCHANGED <<committed, db>>
            ELSE LET up == UploadRows([db |-> SessionLocal(committed), records_added |-> 0,
                                       products_created |-> 0],
                                      c[1], df, 1, Len(df))
                     s == Commit(up.db)
                 IN /\ committed' = StoreOf(s)
                    /\ db' = [SessionLocal(StoreOf(s)) EXCEPT !.pending = db.pending]
                    /\ result' = [call EXCEPT !.outcome = "ok",
                                              !.rows_loaded = up.records_added,
                                              !.products_seen =
                                                  {FirstProduct(s, c[1], df[i].sku).id :
                                                      i \in DOMAIN df}]
    /\ UNCHANGED <<colsIn, colsOut, dateIn, dateOut>>
    /\ UNCHANGED <<dashVars, concVars, authVars>>

(***************************************************************************)
(* The specification of the store.                                         *)
(***************************************************************************)
Init ==
    /\ committed = EmptyStore
    /\ db = SessionLocal(EmptyStore)
    /\ result = NoResult
    /\ calls = 0
    /\ colsIn = <<>>
    /\ colsOut = [resolved |-> FALSE, mapping |-> <<>>]
    /\ dateIn = [type |-> "NoneType", text |-> <<>>]
    /\ dateOut = [done |-> FALSE, value |-> <<>>]
    /\ IdleDash /\ IdleConc /\ IdleAuth

Next ==
    \/ UploadSales
    \/ ProcessSalesAndForecast
    \/ GenerateForecast
    \/ CloseSession

Spec == Init /\ [][Next]_vars

(***************************************************************************)
(* Properties of the store.                                                *)
(***************************************************************************)
ForecastsOf(store, product_id) ==
    {f \in store.forecasts : f.product_id = product_id}

ForecastDates(store, product_id) ==
    {f.forecast_date : f \in ForecastsOf(store, product_id)}

SaleDates(store, product_id) ==
    {x.date : x \in {y \in store.sales : y.product_id = product_id}}

\* The SKUs of an upload and the valid days of one of them.
BatchSkus(b) == {BatchOf(b)[i].sku : i \in DOMAIN BatchOf(b)}

BatchDays(b, sku) ==
    {BatchOf(b)[i].date : i \in {j \in DOMAIN BatchOf(b) :
                                   BatchOf(b)[j].sku = sku /\ BatchOf(b)[j].date # NoDate}}

\* The days a store holds for a user's SKU.
StoredDays(store, user_id, sku) ==
    UNION {SaleDates(store, p.id) : p \in ProductsFor(store, user_id, sku)}

IsIngestion(r) == r.op \in {"upload", "process"}

\* C1: the committed store holds at most one sales record per (product,
\* date), whatever ingestions have run.
C1_OneRecordPerProductDate ==
    \A x \in committed.sales : \A y \in committed.sales :
        (x.product_id = y.product_id /\ x.date = y.date) => x.id = y.id

\* C2: a batch whose columns resolve is rejected for insufficient history
\* exactly when some SKU of it has fewer than MinHistoryDays distinct days in
\* the union of the days stored for the product and the days of the batch.
C2_RejectsIffUnionBelowThreshold ==
    [][(result'.op = "process" /\ result'.outcome # "schema_error")
         => (result'.outcome = "insufficient_history"
               <=> \E sku \in BatchSkus(result'.batch) :
                     Cardinality(StoredDays(StoreOf(db), result'.user, sku)
                                 \cup BatchDays(result'.batch, sku))
                       < MinHistoryDays)]_vars

\* C3: a call rejected for insufficient history leaves the stored products,
\* sales records and forecast points as they were before it, in the committed
\* store and in what the session of the call reads.
C3_RejectedBatchStoresNothing ==
    [][(result'.op = "process" /\ result'.outcome = "insufficient_history")
         => (committed' = committed /\ StoreOf(db') = StoreOf(db))]_vars

\* C4: a batch is committed whole or not at all: an ingestion that raised
\* commits nothing, and the products and sales records a step commits are
\* rows of the batch that step ingested successfully, never the leftovers of
\* a batch that failed earlier on the session.
FailedIngestion(r) ==
    IsIngestion(r) /\ r.outcome \in {"insufficient_history", "value_error", "http_500"}

OwnRowsOnly(old, new, r) ==
    /\ \A p \in new.products \ old.products :
         /\ IsIngestion(r) /\ r.outcome \in {"ok", "fit_error"}
         /\ p.user_id = r.user /\ p.sku \in BatchSkus(r.batch)
    /\ \A x \in new.sales \ old.sales :
         /\ IsIngestion(r) /\ r.outcome \in {"ok", "fit_error"}
         /\ x.user_id = r.user
         /\ \E p \in new.products :
              p.id = x.product_id /\ p.sku \in BatchSkus(r.batch)

C4_BatchesAreAtomic ==
    [][/\ FailedIngestion(result') => committed' = committed
       /\ OwnRowsOnly(committed, committed', result')]_vars

\* C5: a forecast run over at least MinForecastPoints history points whose
\* fit does not raise replaces the product's forecast set in full: every
\* point stored before is deleted and exactly ForecastPeriods points, one per
\* date, are stored; a second run over the same history leaves the same
\* dates.
SameHistoryRun(q, r) ==
    /\ q.product_id = r.product_id /\ q.status = "generated"
    /\ q.points = r.points /\ q.last = r.last

C5_ForecastReplacedInFull ==
    [][\A r \in result'.runs :
         (r.points >= MinForecastPoints /\ r.status # "fit_error") =>
            /\ r.status = "generated"
            /\ r.deleted = Cardinality(ForecastsOf(StoreOf(db), r.product_id))
            /\ Cardinality(ForecastsOf(committed', r.product_id)) = ForecastPeriods
            /\ Cardinality(ForecastDates(committed', r.product_id)) = ForecastPeriods
            /\ (\E q \in result.runs : SameHistoryRun(q, r)) =>
                 ForecastDates(committed', r.product_id)
                     = ForecastDates(committed, r.product_id)]_vars

C5_Witness ==
    \E r \in result.runs :
        /\ result.op = "forecast" /\ r.status = "generated"
        /\ r.deleted = ForecastPeriods
        /\ Cardinality(ForecastsOf(committed, r.product_id)) = ForecastPeriods

\* C6: after a forecast run the stored forecast dates of the product are the
\* ForecastPeriods consecutive days after the last date of the history the
\* run loaded, one point per day, whatever duplicates or gaps that history
\* has.
LoadedHistory(op, before, after, product_id) ==
    IF op = "forecast" THEN SaleDates(before, product_id)
    ELSE SaleDates(after, product_id)

C6_HorizonFollowsLastDate ==
    [][\A r \in result'.runs :
         r.status = "generated" =>
            LET D == Max(LoadedHistory(result'.op, StoreOf(db), StoreOf(db'),
                                       r.product_id))
            IN /\ ForecastDates(committed', r.product_id)
                    = (D + 1)..(D + ForecastPeriods)
               /\ Cardinality(ForecastsOf(committed', r.product_id))
                    = Cardinality(ForecastDates(committed', r.product_id))]_vars

C6_Witness ==
    \E r \in result.runs :
        LET dates == SaleDates(committed, r.product_id)
        IN /\ r.status = "generated"
           /\ r.points > Cardinality(dates)
           /\ \E d \in Min(dates)..Max(dates) : d \notin dates
           /\ ForecastDates(committed, r.product_id)
                = (Max(dates) + 1)..(Max(dates) + ForecastPeriods)

\* C7: every stored forecast point has a predicted quantity >= 0, in the
\* committed store and in the session, whatever the model predicts.
C7_ForecastsNonNegative ==
    \A f \in committed.forecasts \cup db.forecasts : f.predicted_quantity >= 0

C7_Witness ==
    \E r \in result.runs :
        /\ r.status = "generated"
        /\ Yhat(r.yhat, ForecastPeriods) < 0
        /\ \E f \in ForecastsOf(committed, r.product_id) :
             f.forecast_date = r.last + ForecastPeriods /\ f.predicted_quantity = 0

\* C9: process_sales_and_forecast raises the schema error exactly when the
\* headers give fewer than five canonical fields; the error names the fields
\* some header was matched to and no others, and the call leaves the
\* committed store and the session as they were.
FoundFields(columns) ==
    {f \in Fields : \E i \in DOMAIN columns : Classify(columns[i]) = f}

C9_SchemaErrorNamesFoundFields ==
    [][result'.op = "process" =>
         LET found == FoundFields(HeadersOf(result'.headers))
         IN /\ (result'.outcome = "schema_error")
                 <=> (Cardinality(found) < RequiredFields)
            /\ (result'.outcome = "schema_error") =>
                 (result'.found = found /\ committed' = committed /\ db' = db)]_vars

C9_Witness ==
    /\ result.op = "process" /\ result.outcome = "schema_error"
    /\ result.headers = 2
    /\ result.found = {"date", "sku", "name", "quantity"}
    /\ committed.products # {}

\* C15: when the model fit of one product raises inside
\* process_sales_and_forecast, the call still reports success, every other
\* product of the batch has its forecast generated and the sales records of
\* the batch stay committed.
C15_FitFailureIsPartialSuccess ==
    [][(result'.op = "process" /\ \E r \in result'.runs : r.status = "fit_error")
         => /\ result'.outcome = "ok"
            /\ \A p \in result'.products_seen :
                 \E r \in result'.runs :
                    r.product_id = p /\ r.status \in {"generated", "fit_error"}
            /\ \A p \in result'.products_seen :
                 Cardinality(SalesData(committed', p)) >= MinForecastPoints]_vars

\* C16: an ingestion leaves the current_stock of every product that existed
\* before it as it was, in the committed store and in the session, and a
\* product it creates gets the default stock of its code path.
KeepsStock(old, new) ==
    \A p \in old.products :
        \A q \in new.products : q.id = p.id => q.current_stock = p.current_stock

CreatedWithDefaultStock(old, new) ==
    \A q \in new.products :
        (\A p \in old.products : p.id # q.id)
            => q.current_stock \in {ProcessDefaultStock, UploadDefaultStock}

C16_IngestionKeepsStock ==
    [][IsIngestion(result') =>
         /\ KeepsStock(committed, committed')
         /\ KeepsStock(StoreOf(db), StoreOf(db'))
         /\ CreatedWithDefaultStock(committed, committed')
         /\ CreatedWithDefaultStock(StoreOf(db), StoreOf(db'))]_vars

\* A product created by an upload (stock 0) that a later
\* process_sales_and_forecast call recorded sales for.
C16_Witness ==
    /\ result.op = "process" /\ result.outcome = "ok" /\ calls = 2
    /\ \E p \in committed.products :
         /\ p.id \in result.products_seen
         /\ p.current_stock = UploadDefaultStock
         /\ \E x \in committed.sales : x.product_id = p.id /\ x.quantity_sold > 0

\* C17: the committed store and the session hold at most one product per
\* (user, SKU), whatever ingestions have run.
OneProductPerSku(store) ==
    \A p \in store.products : \A q \in store.products :
        (p.user_id = q.user_id /\ p.sku = q.sku) => p.id = q.id

C17_OneProductPerUserSku ==
    OneProductPerSku(committed) /\ OneProductPerSku(StoreOf(db))

\* An upload whose rows name SKU A twice, after a call of the other path
\* created the product of SKU A (stock 100).
C17_Witness ==
    /\ result.op = "upload" /\ result.outcome = "ok" /\ result.batch = 11
    /\ \E p \in committed.products :
         /\ p.sku = "A" /\ p.user_id = result.user
         /\ p.current_stock = ProcessDefaultStock
         /\ p.id \in result.products_seen
    /\ Cardinality(ProductsFor(committed, result.user, "A")) = 1

\* C18: in process_sales_and_forecast no forecast run is skipped for lack of
\* history: every product the batch touched has at least MinForecastPoints
\* stored sales when its forecast is generated, and a call that returns
\* leaves every touched product with ForecastPeriods fresh forecast points.
C18_SkipIsUnreachable ==
    [][result'.op = "process" =>
         /\ \A r \in result'.runs :
              r.status # "skipped" /\ r.points >= MinForecastPoints
         /\ result'.outcome = "ok" =>
              \A p \in result'.products_seen :
                 /\ \E r \in result'.runs :
                      r.product_id = p /\ r.status = "generated"
                 /\ Cardinality(ForecastsOf(committed', p)) = ForecastPeriods]_vars

\* A batch of two SKUs, one of them passing the validation only with the
\* days already stored.
C18_Witness ==
    /\ result.op = "process" /\ result.outcome = "ok"
    /\ Cardinality(result.products_seen) = 2
    /\ \E x \in result.runs : \E y \in result.runs :
         x.status = "generated" /\ y.status = "generated" /\ x.points > y.points

\* C19: an ingestion by user u leaves every product and sales record of
\* another user, and every forecast of another user's product, as it was; the
\* products, sales records and forecasts it creates belong to u; a sales
\* record always belongs to the owner of its product, so two users with one
\* SKU have two products; and the day count of a rejected batch is taken from
\* u's own product.  The rows the call works on are those its session reads
\* (for upload_sales, a session just opened on the committed store); a sales
\* record that an earlier call left pending on the session is not a record
\* this call creates.
OthersUntouched(old, new, u) ==
    /\ \A p \in old.products : p.user_id # u => p \in new.products
    /\ \A x \in old.sales : x.user_id # u => x \in new.sales
    /\ \A f \in old.forecasts :
         (\E p \in old.products : p.id = f.product_id /\ p.user_id # u)
            => f \in new.forecasts

CreatesOwn(old, new, u, leftovers) ==
    /\ \A p \in new.products \ old.products : p.user_id = u
    /\ \A x \in new.sales \ old.sales :
         \/ x.user_id = u
         \/ \E i \in DOMAIN leftovers :
              /\ leftovers[i].user_id = x.user_id
              /\ leftovers[i].product_id = x.product_id
              /\ leftovers[i].date = x.date
              /\ leftovers[i].quantity_sold = x.quantity_sold
    /\ \A f \in new.forecasts \ old.forecasts :
         \E p \in new.products : p.id = f.product_id /\ p.user_id = u

SalesFollowOwner(store) ==
    \A x \in store.sales : \A p \in store.products :
        p.id = x.product_id => p.user_id = x.user_id

C19_IngestionStaysWithinUser ==
    [][IsIngestion(result') =>
         LET u == result'.user
             own == result'.op = "upload"
             old == IF own THEN committed ELSE StoreOf(db)
             new == IF own THEN committed' ELSE StoreOf(db')
             leftovers == IF own THEN <<>> ELSE db.pending
         IN /\ OthersUntouched(old, new, u)
            /\ OthersUntouched(committed, committed', u)
            /\ CreatesOwn(old, new, u, leftovers)
            /\ SalesFollowOwner(new)
            /\ result'.outcome = "insufficient_history" =>
                 result'.days
                   = Cardinality(StoredDays(old, u, result'.sku))
                       + Cardinality(BatchDays(result'.batch, result'.sku))]_vars

\* Two users have ingested the same SKU: two products, each with the sales
\* of its owner.
C19_Witness ==
    /\ IsIngestion(result) /\ result.outcome = "ok" /\ calls = 2
    /\ \E p \in committed.products : \E q \in committed.products :
         /\ p.sku = q.sku /\ p.user_id # q.user_id /\ q.user_id = result.user
         /\ \E x \in committed.sales : x.product_id = p.id /\ x.user_id = p.user_id
         /\ \E y \in committed.sales : y.product_id = q.id /\ y.user_id = q.user_id

(***************************************************************************)
(* The column resolver on its own: every row of five distinct headers      *)
(* drawn from HeaderPool, in every order.                                  *)
(***************************************************************************)
HeaderPool ==
    {H_Date, H_Sku, H_Kod, H_Product, H_Qty, H_Price, H_ProductPrice,
     H_CenaTovara, H_Store}

HeaderRows ==
    {row \in [1..RequiredFields -> HeaderPool] :
        \A i \in 1..RequiredFields : \A j \in 1..RequiredFields :
            i # j => row[i] # row[j]}

Unresolved == [resolved |-> FALSE, mapping |-> <<>>]

InitCols ==
    /\ committed = EmptyStore
    /\ db = SessionLocal(EmptyStore)
    /\ result = NoResult
    /\ calls = 0
    /\ colsIn \in HeaderRows
    /\ colsOut = Unresolved
    /\ dateIn = [type |-> "NoneType", text |-> <<>>]
    /\ dateOut = [done |-> FALSE, value |-> <<>>]
    /\ IdleDash /\ IdleConc /\ IdleAuth

\* Lines 33 to 45 of process_sales_and_forecast on the headers colsIn.
ResolveCols ==
    /\ ~colsOut.resolved
    /\ colsOut' = [resolved |-> TRUE, mapping |-> ResolveColumns(colsIn)]
    /\ UNCHANGED <<committed, db, result, calls, colsIn, dateIn, dateOut>>
    /\ UNCHANGED <<dashVars, concVars, authVars>>

NextCols == ResolveCols

SpecCols == InitCols /\ [][NextCols]_vars

\* Some header carries a keyword of every one of the five groups.
ContainsAllGroups(columns) ==
    \A f \in Fields :
        \E i \in DOMAIN columns : HasKeyword(Strip(Lower(columns[i])), f)

SwapAt(seq, i) ==
    [k \in DOMAIN seq |-> IF k = i THEN seq[i + 1]
                          ELSE IF k = i + 1 THEN seq[i] ELSE seq[k]]

\* C8: headers that contain the five keyword groups resolve all five fields,
\* and exchanging two neighbouring headers does not change the mapping.
C8_ResolvesAllFieldsInAnyOrder ==
    (colsOut.resolved /\ ContainsAllGroups(colsIn)) =>
        /\ DOMAIN colsOut.mapping = Fields
        /\ \A i \in 1..(Len(colsIn) - 1) :
             ResolveColumns(SwapAt(colsIn, i)) = colsOut.mapping

(***************************************************************************)
(* utils.parse_date.  A string is the sequence of its characters; a value  *)
(* that is not a string is a record [type, text] with another type.  The   *)
(* result is <<date>> or, for None, the empty sequence.                    *)
(***************************************************************************)
DigitChars == <<"0", "1", "2", "3", "4", "5", "6", "7", "8", "9">>

IsDigit(c) == \E i \in DOMAIN DigitChars : DigitChars[i] = c

DigitVal(c) == (CHOOSE i \in DOMAIN DigitChars : DigitChars[i] = c) - 1

RECURSIVE ToNat(_)
ToNat(str) ==
    IF str = <<>> THEN 0
    ELSE 10 * ToNat(SubSeq(str, 1, Len(str) - 1)) + DigitVal(str[Len(str)])

AllDigits(str) == \A i \in DOMAIN str : IsDigit(str[i])

\* The directives' patterns in _strptime: %d is 3[0-1]|[1-2]\d|0[1-9]|[1-9]| [1-9],
\* %m is 1[0-2]|0[1-9]|[1-9], %Y is \d\d\d\d.
MatchesDirective(str, directive) ==
    CASE directive = "d" ->
           \/ Len(str) = 2 /\ AllDigits(str) /\ ToNat(str) \in 1..31
           \/ Len(str) = 1 /\ AllDigits(str) /\ ToNat(str) \in 1..9
           \/ Len(str) = 2 /\ str[1] = " " /\ IsDigit(str[2]) /\ DigitVal(str[2]) \in 1..9
      [] directive = "m" ->
           \/ Len(str) = 2 /\ AllDigits(str) /\ ToNat(str) \in 1..12
           \/ Len(str) = 1 /\ AllDigits(str) /\ ToNat(str) \in 1..9
      [] directive = "Y" -> Len(str) = 4 /\ AllDigits(str)

DirectiveValue(str) == IF Head(str) = " " THEN ToNat(Tail(str)) ELSE ToNat(str)

IsLeap(y) == (y % 4 = 0 /\ y % 100 # 0) \/ y % 400 = 0

DaysInMonth(y, m) ==
    IF m = 2 THEN (IF IsLeap(y) THEN 29 ELSE 28)
    ELSE IF m \in {4, 6, 9, 11} THEN 30 ELSE 31

\* datetime's own check of the three numbers (years run from 1 to 9999).
ValidDate(y, m, d) == y >= 1 /\ m \in 1..12 /\ d \in 1..DaysInMonth(y, m)

\* A format is its three directives and the character between them.
DateFormats_WithoutYearFirstSlash ==
    << [order |-> <<"d", "m", "Y">>, sep |-> "."],
       [order |-> <<"Y", "m", "d">>, sep |-> "-"],
       [order |-> <<"d", "m", "Y">>, sep |-> "/"],
       [order |-> <<"d", "m", "Y">>, sep |-> "-"] >>

\* formats = ["%d.%m.%Y", "%Y-%m-%d", "%d/%m/%Y", "%d-%m-%Y", "%Y/%m/%d"]
DateFormats ==
    << [order |-> <<"d", "m", "Y">>, sep |-> "."],
       [order |-> <<"Y", "m", "d">>, sep |-> "-"],
       [order |-> <<"d", "m", "Y">>, sep |-> "/"],
       [order |-> <<"d", "m", "Y">>, sep |-> "-"],
       [order |-> <<"Y", "m", "d">>, sep |-> "/"] >>

\* datetime.strptime(date_str, fmt).date(): <<date>>, or <<>> where strptime
\* raises ValueError.  The pattern matches exactly when the separator cuts
\* the string in three parts and each part matches its directive.
Strptime(str, fmt) ==
    LET cuts == SelectSeq([i \in DOMAIN str |-> i], LAMBDA i : str[i] = fmt.sep)
        part(k) == CASE k = 1 -> SubSeq(str, 1, cuts[1] - 1)
                     [] k = 2 -> SubSeq(str, cuts[1] + 1, cuts[2] - 1)
                     [] k = 3 -> SubSeq(str, cuts[2] + 1, Len(str))
        value(directive) ==
            DirectiveValue(part(CHOOSE k \in 1..3 : fmt.order[k] = directive))
    IN IF Len(cuts) # 2 THEN <<>>
       ELSE IF \E k \in 1..3 : ~MatchesDirective(part(k), fmt.order[k]) THEN <<>>
       ELSE IF ~ValidDate(value("Y"), value("m"), value("d")) THEN <<>>
       ELSE << [year |-> value("Y"), month |-> value("m"), day |-> value("d")] >>

\* for fmt in formats: try: return strptime(...) except: continue, from the
\* k-th format on.
RECURSIVE TryFormats(_, _, _)
TryFormats(str, formats, k) ==
    IF k > Len(formats) THEN <<>>
    ELSE IF Strptime(str, formats[k]) # <<>> THEN Strptime(str, formats[k])
    ELSE TryFormats(str, formats, k + 1)

parse_date(date_str) ==
    IF date_str.type # "str" \/ date_str.text = <<>> THEN <<>>
    ELSE TryFormats(Strip(date_str.text), DateFormats, 1)

(***************************************************************************)
(* The inputs parse_date is applied to.                                    *)
(***************************************************************************)
Pad2(n) == <<DigitChars[(n \div 10) + 1], DigitChars[(n % 10) + 1]>>

Pad4(n) == Pad2(n \div 100) \o Pad2(n % 100)

\* strftime with the format: day and month on two digits, the year on four.
Render(date, fmt) ==
    LET field(directive) == CASE directive = "d" -> Pad2(date.day)
                              [] directive = "m" -> Pad2(date.month)
                              [] directive = "Y" -> Pad4(date.year)
    IN field(fmt.order[1]) \o <<fmt.sep>> \o field(fmt.order[2])
         \o <<fmt.sep>> \o field(fmt.order[3])

\* The five ways of writing a date: day.month.year, year-month-day,
\* day/month/year, day-month-year, year/month/day.
WrittenForms ==
    << [order |-> <<"d", "m", "Y">>, sep |-> "."],
       [order |-> <<"Y", "m", "d">>, sep |-> "-"],
       [order |-> <<"d", "m", "Y">>, sep |-> "/"],
       [order |-> <<"d", "m", "Y">>, sep |-> "-"],
       [order |-> <<"Y", "m", "d">>, sep |-> "/"] >>

Years == {987, 1900, 2000, 2023, 2024}
Months == {1, 2, 4, 9, 10, 12}
Days == {1, 9, 10, 28, 29, 30, 31}

CalendarDates ==
    {date \in [year : Years, month : Months, day : Days] :
        ValidDate(date.year, date.month, date.day)}

Str(text) == [type |-> "str", text |-> text]

RenderedDates ==
    {Str(Render(date, WrittenForms[k])) : date \in CalendarDates, k \in DOMAIN WrittenForms}

\* Strings in none of the five formats: empty, words, year.month.day, a
\* two-digit year, mixed separators, trailing text, month 13, 30 and 29
\* February, 31 April, year 0.
UnparseableTexts ==
    { <<>>,
      <<" ">>,
      <<"a", "b", "c">>,
      <<"2", "0", "2", "4", ".", "0", "1", ".", "1", "5">>,
      <<"1", "5", ".", "0", "1", ".", "2", "4">>,
      <<"1", "5", "-", "0", "1", "/", "2", "0", "2", "4">>,
      <<"1", "5", ".", "0", "1", ".", "2", "0", "2", "4", "x">>,
      <<"2", "0", "2", "4", "-", "1", "3", "-", "0", "1">>,
      <<"3", "0", ".", "0", "2", ".", "2", "0", "2", "4">>,
      <<"2", "9", "/", "0", "2", "/", "2", "0", "2", "3">>,
      <<"2", "9", ".", "0", "2", ".", "1", "9", "0", "0">>,
      <<"3", "1", "-", "0", "4", "-", "2", "0", "2", "4">>,
      <<"0", "0", "0", "0", "-", "0", "1", "-", "0", "1">>,
      <<"2", "0", "2", "4", "0", "1", "1", "5">> }

\* None, a float (an empty cell read by pandas), an integer.
NonStrings ==
    { [type |-> "NoneType", text |-> <<>>],
      [type |-> "float", text |-> <<"n", "a", "n">>],
      [type |-> "int", text |-> <<"2", "0", "2", "4", "0", "1", "1", "5">>] }

\* A rendered date with blanks around it, and dates written without the
\* leading zeros.
LooseTexts ==
    { <<" ", "2", "0", "2", "4", "-", "0", "2", "-", "2", "9", " ">>,
      <<"1", ".", "2", ".", "2", "0", "2", "4">>,
      <<"2", "0", "2", "4", "/", "2", "/", " ", "1">> }

DateInputs ==
    RenderedDates \cup {Str(t) : t \in UnparseableTexts \cup LooseTexts}
        \cup NonStrings

NotParsed == [done |-> FALSE, value |-> <<>>]

InitDate ==
    /\ committed = EmptyStore
    /\ db = SessionLocal(EmptyStore)
    /\ result = NoResult
    /\ calls = 0
    /\ colsIn = <<>>
    /\ colsOut = Unresolved
    /\ dateIn \in DateInputs
    /\ dateOut = NotParsed
    /\ IdleDash /\ IdleConc /\ IdleAuth

ParseDate ==
    /\ ~dateOut.done
    /\ dateOut' = [done |-> TRUE, value |-> parse_date(dateIn)]
    /\ UNCHANGED <<committed, db, result, calls, colsIn, colsOut, dateIn>>
    /\ UNCHANGED <<dashVars, concVars, authVars>>

NextDate == ParseDate

SpecDate == InitDate /\ [][NextDate]_vars

\* C10: parse_date returns the calendar date of every date rendered in one
\* of the five formats, and no value for a value that is not a string or a
\* string in none of the formats.
C10_ParseDateRoundTrip ==
    dateOut.done =>
        /\ \A date \in CalendarDates : \A k \in DOMAIN WrittenForms :
             (dateIn = Str(Render(date, WrittenForms[k]))) => dateOut.value = <<date>>
        /\ (dateIn.type # "str") => dateOut.value = <<>>
        /\ (dateIn.type = "str" /\ dateIn.text \in UnparseableTexts)
             => dateOut.value = <<>>

C10_Witness ==
    /\ dateOut.done
    /\ dateIn = Str(<<"2", "0", "2", "4", "/", "0", "2", "/", "2", "9">>)
    /\ dateOut.value = << [year |-> 2024, month |-> 2, day |-> 29] >>

(***************************************************************************)
(* main.dashboard, from the point where get_current_user_id has returned   *)
(* user_id.  The handler reads the committed store through a session of    *)
(* its own.  A quantity that Python holds as a float is kept exact as the  *)
(* fraction [num, den] with den > 0.                                       *)
(***************************************************************************)
TrailingDays == 30
NoDemandDays == 999
StockoutThreshold == 7
OverstockThreshold == 60
OptimalCoverDays == 30
UrgentDays == 3
TopN == 10

Frac(num, den) == [num |-> num, den |-> den]

\* int(x): the fraction cut towards zero.
IntOf(q) == IF q.num >= 0 THEN q.num \div q.den ELSE 0 - ((0 - q.num) \div q.den)

AddFrac(q, r) == Frac(q.num * r.den + r.num * q.den, q.den * r.den)

\* db.query(Product).filter(Product.user_id == user_id).all(), in key order.
ProductsOfUser(store, user_id) ==
    LET ids == {p.id : p \in {q \in store.products : q.user_id = user_id}}
        ordered == SortedSeq(ids)
    IN [k \in DOMAIN ordered |-> CHOOSE p \in store.products : p.id = ordered[k]]

\* The rows of one product dated thirty_days_ago or later.
RecentSales(store, product_id, today) ==
    {x \in store.sales : x.product_id = product_id /\ x.date >= today - TrailingDays}

RECURSIVE SumQuantity(_)
SumQuantity(rows) ==
    IF rows = {} THEN 0
    ELSE LET x == CHOOSE y \in rows : TRUE
         IN x.quantity_sold + SumQuantity(rows \ {x})

\* float(func.avg(SalesHistory.quantity_sold)...scalar() or 0)
AvgSales(store, product_id, today) ==
    LET rows == RecentSales(store, product_id, today)
    IN IF rows = {} THEN Frac(0, 1) ELSE Frac(SumQuantity(rows), Cardinality(rows))

\* current_stock / avg_daily_sales if avg_daily_sales > 0 else 999
DaysUntilStockout(product, avg_daily_sales) ==
    IF avg_daily_sales.num > 0
    THEN Frac(product.current_stock * avg_daily_sales.den, avg_daily_sales.num)
    ELSE Frac(NoDemandDays, 1)

IsCritical_AtMost(days_until_stockout) ==
    days_until_stockout.num <= StockoutThreshold * days_until_stockout.den

\* if days_until_stockout < 7
IsCritical(days_until_stockout) ==
    days_until_stockout.num < StockoutThreshold * days_until_stockout.den

\* The entry appended to critical_products.
CriticalEntry(product, avg_daily_sales) ==
    [product_id |-> product.id, current_stock |-> product.current_stock,
     days_left |-> IntOf(DaysUntilStockout(product, avg_daily_sales)),
     risk_value |-> product.current_stock * product.unit_price]

\* The loop of section 3 over products.
CriticalProducts(store, products, today) ==
    LET flagged == SelectSeq(products, LAMBDA p :
                       IsCritical(DaysUntilStockout(p, AvgSales(store, p.id, today))))
    IN [k \in DOMAIN flagged |->
           CriticalEntry(flagged[k], AvgSales(store, flagged[k].id, today))]

RECURSIVE RiskTotal(_)
RiskTotal(critical_products) ==
    IF critical_products = <<>> THEN 0
    ELSE Head(critical_products).risk_value + RiskTotal(Tail(critical_products))

IsOverstock_AtLeast(product, avg_daily_sales) ==
    /\ avg_daily_sales.num > 0
    /\ product.current_stock * avg_daily_sales.den
         >= OverstockThreshold * avg_daily_sales.num

\* if avg_daily_sales > 0: ... if days_of_stock > 60
IsOverstock(product, avg_daily_sales) ==
    /\ avg_daily_sales.num > 0
    /\ product.current_stock * avg_daily_sales.den
         > OverstockThreshold * avg_daily_sales.num

\* excess_qty = current_stock - avg_daily_sales * 30
ExcessQty(product, avg_daily_sales) ==
    Frac(product.current_stock * avg_daily_sales.den
           - OptimalCoverDays * avg_daily_sales.num, avg_daily_sales.den)

\* The entry appended to overstock_products, with the value added to
\* overstock_total.
OverstockEntry(product, avg_daily_sales) ==
    LET excess_qty == ExcessQty(product, avg_daily_sales)
    IN [product_id |-> product.id, current_stock |-> product.current_stock,
        days_of_stock |-> IntOf(Frac(product.current_stock * avg_daily_sales.den,
                                     avg_daily_sales.num)),
        excess |-> excess_qty,
        excess_qty |-> IntOf(excess_qty),
        overstock_value |-> Frac(excess_qty.num * product.unit_price, excess_qty.den)]

\* The loop of section 4 over products.
OverstockProducts(store, products, today) ==
    LET flagged == SelectSeq(products, LAMBDA p :
                       IsOverstock(p, AvgSales(store, p.id, today)))
    IN [k \in DOMAIN flagged |->
           OverstockEntry(flagged[k], AvgSales(store, flagged[k].id, today))]

RECURSIVE OverstockTotal(_)
OverstockTotal(overstock_products) ==
    IF overstock_products = <<>> THEN Frac(0, 1)
    ELSE AddFrac(Head(overstock_products).overstock_value,
                 OverstockTotal(Tail(overstock_products)))

\* "СРОЧНО" if p["days_left"] < 3 else "ВЫСОКИЙ"
Priority(days_left) == IF days_left < UrgentDays THEN "urgent" ELSE "high"

\* The loop of section 6: one recommendation per critical product.
Recommendations(critical_products) ==
    [k \in DOMAIN critical_products |->
        [product_id |-> critical_products[k].product_id,
         days_left |-> critical_products[k].days_left,
         priority |-> Priority(critical_products[k].days_left)]]

SortByDaysLeft_Unsorted(recommendations) == recommendations

\* recommendations.sort(key=lambda x: x["days_left"]): ascending, entries
\* with equal keys in their former order.
RECURSIVE SortByDaysLeft(_)
SortByDaysLeft(recommendations) ==
    IF recommendations = <<>> THEN <<>>
    ELSE LET i == CHOOSE k \in DOMAIN recommendations :
                     \A j \in DOMAIN recommendations :
                        \/ recommendations[k].days_left < recommendations[j].days_left
                        \/ /\ recommendations[k].days_left = recommendations[j].days_left
                           /\ k <= j
         IN <<recommendations[i]>>
              \o SortByDaysLeft(SubSeq(recommendations, 1, i - 1)
                                  \o SubSeq(recommendations, i + 1, Len(recommendations)))

\* recommendations[:10]
FirstN(seq, n) == IF Len(seq) <= n THEN seq ELSE SubSeq(seq, 1, n)

\* The response of dashboard for user_id on day today.
DashboardResponse(store, user_id, today) ==
    LET products == ProductsOfUser(store, user_id)
        critical_products == CriticalProducts(store, products, today)
        overstock_products == OverstockProducts(store, products, today)
        recommendations == SortByDaysLeft(Recommendations(critical_products))
    IN IF products = <<>>
       THEN [done |-> TRUE, today |-> today, user |-> user_id, empty |-> TRUE,
             critical |-> <<>>, risk_total |-> 0, overstock |-> <<>>,
             overstock_total |-> Frac(0, 1), recommendations |-> <<>>,
             urgent_reorders |-> 0]
       ELSE [done |-> TRUE, today |-> today, user |-> user_id, empty |-> FALSE,
             critical |-> critical_products,
             risk_total |-> RiskTotal(critical_products),
             overstock |-> overstock_products,
             overstock_total |-> OverstockTotal(overstock_products),
             recommendations |-> FirstN(recommendations, TopN),
             urgent_reorders |-> Len(critical_products)]

(***************************************************************************)
(* The stores the dashboard is asked about.  A profile is one product with *)
(* its owner, stock, price and sales; a sale is <<age, quantity>>, its     *)
(* date lying `age` days before the first of the days the dashboard is     *)
(* asked on.                                                               *)
(***************************************************************************)
Todays == {100, 101}

Profile(user_id, stock, price, sales) ==
    [user_id |-> user_id, stock |-> stock, price |-> price, sales |-> sales]

\* In order: stock for 2.5 days; stock for 150 days; no sales; sales of 0;
\* returns only (negative quantities); stock for exactly 7 days; stock for
\* exactly 60 days; average 1/3; a sale on the edge of the trailing window;
\* another user's product; stock for 100 days; no stock.
Profiles ==
    << Profile(1, 5, 10, << <<1, 2>>, <<2, 2>> >>),
       Profile(1, 300, 10, << <<1, 2>>, <<2, 2>> >>),
       Profile(1, 0, 10, << >>),
       Profile(1, 100, 20, << <<1, 0>>, <<2, 0>> >>),
       Profile(1, 100, 20, << <<1, -1>>, <<2, -1>> >>),
       Profile(1, 14, 10, << <<1, 2>>, <<2, 2>> >>),
       Profile(1, 120, 10, << <<1, 3>>, <<2, 1>> >>),
       Profile(1, 1, 10, << <<1, 0>>, <<2, 0>>, <<3, 1>> >>),
       Profile(1, 10, 10, << <<30, 5>>, <<1, 1>> >>),
       Profile(2, 5, 10, << <<1, 2>>, <<2, 2>> >>),
       Profile(1, 100, 10, << <<1, 1>> >>),
       Profile(1, 0, 10, << <<1, 2>> >>) >>

\* Twelve products of one user that run out within a week, their days of
\* stock in no particular order.
ManyCritical ==
    [k \in 1..(TopN + 2) |-> Profile(1, (k * 5) % StockoutThreshold, 10, << <<1, 1>> >>)]

ProfileRows ==
    {<<Profiles[a]>> : a \in DOMAIN Profiles}
        \cup {<<Profiles[a], Profiles[b]>> : a \in DOMAIN Profiles, b \in DOMAIN Profiles}
        \cup {ManyCritical, SubSeq(ManyCritical, 1, TopN), <<Profiles[10]>> \o ManyCritical}

MaxSalesPerProfile == 3

StoreFromProfiles(row) ==
    [products |-> {[id |-> k, user_id |-> row[k].user_id,
                    sku |-> <<"S", k>>, current_stock |-> row[k].stock,
                    unit_price |-> row[k].price] : k \in DOMAIN row},
     sales |-> UNION {{[id |-> (k - 1) * MaxSalesPerProfile + j,
                        user_id |-> row[k].user_id, product_id |-> k,
                        date |-> Min(Todays) - row[k].sales[j][1],
                        quantity_sold |-> row[k].sales[j][2]]
                          : j \in DOMAIN row[k].sales} : k \in DOMAIN row},
     forecasts |-> {}]

InitDash ==
    /\ committed \in {StoreFromProfiles(row) : row \in ProfileRows}
    /\ db = SessionLocal(committed)
    /\ result = NoResult
    /\ calls = 0
    /\ colsIn = <<>>
    /\ colsOut = Unresolved
    /\ dateIn = [type |-> "NoneType", text |-> <<>>]
    /\ dateOut = NotParsed
    /\ dashOut \in {[done |-> FALSE, today |-> t] : t \in Todays}
    /\ IdleConc /\ IdleAuth

Dashboard ==
    /\ ~dashOut.done
    /\ \E user_id \in {1, 2} :
         dashOut' = DashboardResponse(committed, user_id, dashOut.today)
    /\ UNCHANGED <<committed, db, result, calls, colsIn, colsOut, dateIn, dateOut>>
    /\ UNCHANGED <<concVars, authVars>>

NextDash == Dashboard

SpecDash == InitDash /\ [][NextDash]_vars

(***************************************************************************)
(* Properties of the dashboard.  For a product p of the store and the day  *)
(* of the request, Demand is the sum and Count the number of the sales     *)
(* quantities in the trailing window: the average daily demand is          *)
(* Demand / Count, or 0 when there is no sale.                             *)
(***************************************************************************)
Demand(p) == SumQuantity(RecentSales(committed, p.id, dashOut.today))

Count(p) == Cardinality(RecentSales(committed, p.id, dashOut.today))

OwnProducts == {p \in committed.products : p.user_id = dashOut.user}

InCritical(p) ==
    \E k \in DOMAIN dashOut.critical : dashOut.critical[k].product_id = p.id

RECURSIVE StockValue(_)
StockValue(products) ==
    IF products = {} THEN 0
    ELSE LET p == CHOOSE q \in products : TRUE
         IN p.current_stock * p.unit_price + StockValue(products \ {p})

\* stock / (Demand / Count) < StockoutThreshold, for an average that is not 0.
QuotientBelowThreshold(p) ==
    IF Demand(p) > 0
    THEN p.current_stock * Count(p) < StockoutThreshold * Demand(p)
    ELSE p.current_stock * Count(p) > StockoutThreshold * Demand(p)

\* C11 as stated: a product is in the stockout-risk set exactly when its
\* stock divided by its average demand, or 999 when the average is zero, is
\* below 7; the total risk is the stock value of exactly those products.
C11_StockoutRiskAsStated ==
    dashOut.done =>
        LET atRisk == {p \in OwnProducts :
                          Demand(p) # 0 /\ QuotientBelowThreshold(p)}
        IN /\ \A p \in OwnProducts : InCritical(p) <=> p \in atRisk
           /\ dashOut.risk_total = StockValue(atRisk)

\* C11: a product is in the stockout-risk set exactly when its average
\* demand is positive and its stock divided by that average is below 7 (an
\* average that is zero or negative counts as 999 days); days_left is the
\* quotient rounded down, each product is listed once, and the total risk is
\* the sum of stock x unit price over exactly the listed products.
C11_StockoutRisk ==
    dashOut.done =>
        LET atRisk == {p \in OwnProducts :
                          Demand(p) > 0 /\ QuotientBelowThreshold(p)}
        IN /\ \A p \in OwnProducts : InCritical(p) <=> p \in atRisk
           /\ Len(dashOut.critical) = Cardinality(atRisk)
           /\ dashOut.urgent_reorders = Cardinality(atRisk)
           /\ \A k \in DOMAIN dashOut.critical :
                \E p \in atRisk :
                   /\ dashOut.critical[k].product_id = p.id
                   /\ dashOut.critical[k].days_left
                        = (p.current_stock * Count(p)) \div Demand(p)
                   /\ dashOut.critical[k].risk_value
                        = p.current_stock * p.unit_price
           /\ dashOut.risk_total = StockValue(atRisk)

\* Stock 5 with average 2 is listed with 2 days left and a risk of 5 x 10,
\* next to a product with a negative average that is not listed.
C11_Witness ==
    /\ dashOut.done /\ dashOut.user = 1
    /\ \E p \in OwnProducts : Demand(p) < 0 /\ ~InCritical(p)
    /\ \E p \in OwnProducts :
         /\ p.current_stock = 5 /\ Demand(p) = 2 * Count(p) /\ InCritical(p)
    /\ Len(dashOut.critical) = 1
    /\ dashOut.critical[1].days_left = 2
    /\ dashOut.risk_total = 50

\* C12: a product is in the overstock set exactly when its average demand is
\* positive and its stock divided by that average exceeds 60; its excess is
\* stock - average x 30, which is positive, and its overstock value is the
\* excess x unit price.
InOverstock(p) ==
    \E k \in DOMAIN dashOut.overstock : dashOut.overstock[k].product_id = p.id

C12_Overstock ==
    dashOut.done =>
        /\ \A p \in OwnProducts :
             InOverstock(p) <=>
                /\ Demand(p) > 0
                /\ p.current_stock * Count(p) > OverstockThreshold * Demand(p)
        /\ \A k \in DOMAIN dashOut.overstock :
             LET e == dashOut.overstock[k]
             IN \E p \in OwnProducts :
                  /\ e.product_id = p.id
                  /\ e.excess.num * Count(p)
                       = (p.current_stock * Count(p) - OptimalCoverDays * Demand(p))
                           * e.excess.den
                  /\ e.excess.num > 0 /\ e.excess.den > 0
                  /\ e.overstock_value.num * e.excess.den
                       = e.excess.num * p.unit_price * e.overstock_value.den
                  /\ \A j \in DOMAIN dashOut.overstock :
                       dashOut.overstock[j].product_id = p.id => j = k

\* Stock 300 with average 2: 150 days of stock, an excess of 240.
C12_Witness ==
    /\ dashOut.done
    /\ \E k \in DOMAIN dashOut.overstock :
         /\ dashOut.overstock[k].current_stock = 300
         /\ dashOut.overstock[k].days_of_stock = 150
         /\ dashOut.overstock[k].excess_qty = 240
         /\ dashOut.overstock[k].overstock_value = Frac(4800, 2)

\* C13: the recommendation list holds one recommendation per stockout-risk
\* product, in non-decreasing order of days_left, cut to the first TopN:
\* its length is min(TopN, number of stockout-risk products), no product
\* left out has fewer days left than a listed one, and a recommendation is
\* urgent exactly when its days_left is below UrgentDays.
C13_Recommendations ==
    dashOut.done =>
        LET recs == dashOut.recommendations
            Listed(k) == \E j \in DOMAIN recs :
                            recs[j].product_id = dashOut.critical[k].product_id
        IN /\ Len(recs) = Min({TopN, Len(dashOut.critical)})
           /\ \A i \in DOMAIN recs : \A j \in DOMAIN recs :
                /\ i < j => recs[i].days_left <= recs[j].days_left
                /\ recs[i].product_id = recs[j].product_id => i = j
           /\ \A j \in DOMAIN recs :
                /\ \E k \in DOMAIN dashOut.critical :
                     /\ dashOut.critical[k].product_id = recs[j].product_id
                     /\ dashOut.critical[k].days_left = recs[j].days_left
                /\ recs[j].priority = "urgent" <=> recs[j].days_left < UrgentDays
                /\ recs[j].priority \in {"urgent", "high"}
           /\ \A k \in DOMAIN dashOut.critical :
                ~Listed(k) =>
                   \A j \in DOMAIN recs :
                      recs[j].days_left <= dashOut.critical[k].days_left

\* Twelve stockout-risk products: ten are listed, urgent ones first.
C13_Witness ==
    /\ dashOut.done
    /\ Len(dashOut.critical) = TopN + 2
    /\ Len(dashOut.recommendations) = TopN
    /\ dashOut.recommendations[1].priority = "urgent"
    /\ dashOut.recommendations[TopN].priority = "high"
    /\ \E k \in 1..(TopN - 1) :
         dashOut.critical[k].days_left > dashOut.critical[k + 1].days_left

(***************************************************************************)
(* Two ingestion requests in flight at once.  Each request has a session   *)
(* of its own and runs the steps of its handler in order; the steps of the *)
(* two requests interleave (requests served by different workers or        *)
(* threads).  Neither handler takes a lock: the only exclusion is SQLite's *)
(* write lock, which a session takes with its first INSERT or UPDATE and   *)
(* keeps until it commits or rolls back.  A session that needs the lock    *)
(* while the other holds it waits, and gets "database is locked" when the  *)
(* busy timeout runs out first.  Queries read the committed rows and the   *)
(* rows the session itself has flushed.                                    *)
(***************************************************************************)
RequestIds == {1, 2}

RequestKinds == {"upload", "process"}

\* Both requests are made by user 1 and carry a sale of SKU A on day 1; the
\* quantity tells them apart.  upload_sales gets one row, and
\* process_sales_and_forecast a file of MinHistoryDays days.
RequestRows(id, kind) ==
    IF kind = "upload" THEN <<Row("A", 1, 2 + id)>>
    ELSE Seg("A", 1, MinHistoryDays, 2 + id)

NewRequest(id, kind) ==
    [id |-> id, kind |-> kind, user_id |-> 1, df |-> RequestRows(id, kind),
     pc |-> "lookup_product", product_id |-> 0, existing_sale |-> 0,
     db |-> SessionLocal(EmptyStore), products_seen |-> {}, outcome |-> "running"]

\* The store the requests find: empty, or holding SKU A of user 1 with a
\* sale on each of the days 1..MinHistoryDays.
StoreWithHistory ==
    LET up == UploadRows([db |-> SessionLocal(EmptyStore), records_added |-> 0,
                          products_created |-> 0], 1, BatchOf(1), 1, Len(BatchOf(1)))
    IN StoreOf(Commit(up.db))

\* What the session of request r reads.
View(r) ==
    IF writer = r.id THEN r.db
    ELSE [SessionLocal(committed) EXCEPT !.pending = r.db.pending]

\* The session may write: no other session holds the write lock.
CanWrite(r) == writer \in {0, r.id}

InitConc ==
    /\ committed \in {EmptyStore, StoreWithHistory}
    /\ db = SessionLocal(EmptyStore)
    /\ result = NoResult
    /\ calls = 0
    /\ colsIn = <<>>
    /\ colsOut = Unresolved
    /\ dateIn = [type |-> "NoneType", text |-> <<>>]
    /\ dateOut = NotParsed
    /\ requests \in {<<NewRequest(1, a), NewRequest(2, b)>> :
                        a \in RequestKinds, b \in RequestKinds}
    /\ writer = 0
    /\ IdleDash /\ IdleAuth

\* What the steps of a request leave alone.
concRest ==
    <<db, result, calls, colsIn, colsOut, dateIn, dateOut, dashVars, authVars>>

\* product = db.query(Product).filter(sku, user_id).first()
\* (main.py 220-223, forecast_engine.py 70)
LookupProduct(i) ==
    LET r == requests[i]
        found == ProductsFor(View(r), r.user_id, r.df[1].sku)
    IN /\ r.pc = "lookup_product"
       /\ requests' = [requests EXCEPT
             ![i].product_id = IF found = {} THEN 0
                               ELSE FirstProduct(View(r), r.user_id, r.df[1].sku).id,
             ![i].pc = "create_product"]
       /\ UNCHANGED <<committed, writer>>
       /\ UNCHANGED concRest

\* if not product: db.add(product); db.flush() (main.py 225-234,
\* forecast_engine.py 72-85), and for process_sales_and_forecast the day
\* count that follows (lines 88-98).
CreateProduct(i) ==
    LET r == requests[i]
        isNew == r.product_id = 0
        s1 == IF isNew
              THEN AddProductAndFlush(View(r), r.user_id, r.df[1].sku,
                                      IF r.kind = "upload" THEN UploadDefaultStock
                                      ELSE ProcessDefaultStock,
                                      IF r.kind = "upload" THEN UploadDefaultPrice
                                      ELSE LastRowPrice(r.df, r.df[1].sku))
              ELSE View(r)
        product_id == IF isNew THEN Max({p.id : p \in s1.products}) ELSE r.product_id
        total_days == TotalDays(ExistingDays(s1, product_id), NewDays(r.df, r.df[1].sku))
        rejected == r.kind = "process" /\ total_days < MinHistoryDays
    IN /\ r.pc = "create_product"
       /\ isNew => CanWrite(r)
       /\ requests' = [requests EXCEPT
             ![i].db = s1,
             ![i].product_id = product_id,
             ![i].pc = IF rejected THEN "done"
                       ELSE IF r.kind = "upload" THEN "lookup_sale" ELSE "save_rows",
             ![i].outcome = IF rejected THEN "insufficient_history" ELSE r.outcome]
       /\ writer' = IF isNew /\ ~rejected THEN r.id
                    ELSE IF rejected /\ writer = r.id THEN 0 ELSE writer
       /\ UNCHANGED committed
       /\ UNCHANGED concRest

\* existing_sale = db.query(SalesHistory).filter(...).first(); then the
\* quantity is assigned to it, or a new record is added (main.py 241-260).
LookupSale(i) ==
    LET r == requests[i]
        row == r.df[1]
        found == ExistingSales(View(r), r.user_id, r.product_id, row.date)
    IN /\ r.pc = "lookup_sale"
       /\ requests' = [requests EXCEPT
             ![i].existing_sale =
                 IF found = {} THEN 0
                 ELSE FirstSale(View(r), r.user_id, r.product_id, row.date).id,
             ![i].db = IF found = {}
                       THEN AddSale(View(r), [user_id |-> r.user_id,
                                              product_id |-> r.product_id,
                                              date |-> row.date,
                                              quantity_sold |-> row.qty])
                       ELSE View(r),
             ![i].products_seen = {r.product_id},
             ![i].pc = "commit"]
       /\ UNCHANGED <<committed, writer>>
       /\ UNCHANGED concRest

\* The saving loop of process_sales_and_forecast (lines 101-113).
SaveRowsStep(i) ==
    LET r == requests[i]
        sv == SaveRows(View(r), r.user_id, r.df)
    IN /\ r.pc = "save_rows"
       /\ requests' = [requests EXCEPT ![i].db = sv.db,
                                       ![i].products_seen = sv.products_seen,
                                       ![i].pc = "commit"]
       /\ UNCHANGED <<committed, writer>>
       /\ UNCHANGED concRest

\* db.commit() (main.py 262, forecast_engine.py 115): the flush writes the
\* pending records and the assigned quantity, the commit publishes them and
\* gives the write lock back.
CommitStep(i) ==
    LET r == requests[i]
        s0 == View(r)
        s1 == IF r.existing_sale = 0 THEN s0
              ELSE UpdateQuantity(s0, CHOOSE x \in s0.sales : x.id = r.existing_sale,
                                  r.df[1].qty)
        s2 == Commit(s1)
    IN /\ r.pc = "commit"
       /\ CanWrite(r)
       /\ committed' = StoreOf(s2)
       /\ writer' = 0
       /\ requests' = [requests EXCEPT
             ![i].db = s2,
             ![i].pc = IF r.kind = "upload" THEN "done" ELSE "forecast",
             ![i].outcome = IF r.kind = "upload" THEN "ok" ELSE r.outcome]
       /\ UNCHANGED concRest

\* for product_id in products_seen: _generate_forecast(...)
\* (forecast_engine.py 118-119), every run committing on its own.
ForecastStep(i) ==
    LET r == requests[i]
        pids == SortedSeq(r.products_seen)
    IN /\ r.pc = "forecast"
       /\ CanWrite(r)
       /\ \E failAt \in 0..Len(pids) :
            LET fc == ForecastAll(View(r), committed, pids,
                                  [level |-> 10, trend |-> -1], failAt, 1, {})
            IN /\ committed' = fc.committed
               /\ requests' = [requests EXCEPT
                     ![i].db = fc.db, ![i].pc = "done",
                     ![i].outcome = IF fc.raised THEN "fit_error" ELSE "ok"]
       /\ UNCHANGED writer
       /\ UNCHANGED concRest

\* The busy timeout runs out while the other session holds the write lock:
\* sqlite3.OperationalError.  upload_sales rolls back and answers 500
\* (main.py 282-290); process_sales_and_forecast lets the error through.
Locked(i) ==
    LET r == requests[i]
    IN /\ \/ r.pc = "create_product" /\ r.product_id = 0
          \/ r.pc \in {"commit", "forecast"}
       /\ ~CanWrite(r)
       /\ requests' = [requests EXCEPT
             ![i].db = SessionLocal(EmptyStore), ![i].pc = "done",
             ![i].outcome = IF r.kind = "upload" THEN "http_500" ELSE "locked"]
       /\ UNCHANGED <<committed, writer>>
       /\ UNCHANGED concRest

NextConc ==
    \E i \in RequestIds :
        \/ LookupProduct(i)
        \/ CreateProduct(i)
        \/ LookupSale(i)
        \/ SaveRowsStep(i)
        \/ CommitStep(i)
        \/ ForecastStep(i)
        \/ Locked(i)

SpecConc == InitConc /\ [][NextConc]_vars

\* C14: when two concurrent requests that carry a sale for the same (user,
\* SKU, date) have both succeeded, the committed store holds exactly one
\* product for (user, SKU) and exactly one sales record for (product, date),
\* with the quantity of one of the two requests.
BothSucceeded ==
    \A i \in RequestIds : requests[i].pc = "done" /\ requests[i].outcome = "ok"

C14_ConcurrentIngestionSerialized ==
    (requests # <<>> /\ BothSucceeded) =>
        /\ Cardinality(ProductsFor(committed, 1, "A")) = 1
        /\ \A p \in ProductsFor(committed, 1, "A") :
             /\ Cardinality(ExistingSales(committed, 1, p.id, 1)) = 1
             /\ \A x \in ExistingSales(committed, 1, p.id, 1) :
                  \E i \in RequestIds : x.quantity_sold = requests[i].df[1].qty

(***************************************************************************)
(* The session gate of main.py: register, login, logout and the requests   *)
(* that start with get_current_user_id.  users is the users table, a set   *)
(* of rows [id, username, email, password_hash].  gate records the last    *)
(* request and, in live, the usernames whose last successful login has not *)
(* been followed by a logout.                                              *)
(***************************************************************************)
Usernames == {"ann", "bob"}
Passwords == {"p", "q"}

\* Two addresses is_valid_email accepts and one it rejects.
Emails == {"ann@shop.ru", "bob@shop.ru", "no-at-sign"}

is_valid_email(email) == email # "no-at-sign"

\* get_password_hash and verify_password: the hash verifies the password it
\* was made from and no other.
get_password_hash(password) == <<"bcrypt", password>>

verify_password(plain_password, hashed_password) ==
    hashed_password = get_password_hash(plain_password)

\* The requests behind the gate.
Endpoints == {"upload-sales", "products", "dashboard", "product", "export-excel"}

\* The file an authorized upload-sales request carries.
GateUpload == <<Row("A", 1, 1), Row("A", 2, 1)>>

\* db.query(User).filter(User.username == username).first()
UsersNamed(username) == {x \in users : x.username = username}

Gate(op, username, outcome) ==
    [op |-> op, username |-> username, outcome |-> outcome, live |-> gate.live]

InitAuth ==
    /\ committed = EmptyStore
    /\ db = SessionLocal(EmptyStore)
    /\ result = NoResult
    /\ calls = 0
    /\ colsIn = <<>>
    /\ colsOut = Unresolved
    /\ dateIn = [type |-> "NoneType", text |-> <<>>]
    /\ dateOut = NotParsed
    /\ ACTIVE_SESSIONS = [u \in {} |-> 0]
    /\ users = {}
    /\ gate = [op |-> "none", username |-> "", outcome |-> "", live |-> {}]
    /\ IdleDash /\ IdleConc

authRest ==
    <<db, result, calls, colsIn, colsOut, dateIn, dateOut, dashVars, concVars>>

\* POST /register
Register ==
    \E username \in Usernames, password \in Passwords, email \in Emails :
        /\ IF \/ ~is_valid_email(email)
              \/ UsersNamed(username) # {}
              \/ \E x \in users : x.email = email
           THEN /\ gate' = Gate("register", username, "http_400")
                /\ UNCHANGED users
           ELSE /\ users' = users \cup
                      {[id |-> NextId(users), username |-> username, email |-> email,
                        password_hash |-> get_password_hash(password)]}
                /\ gate' = Gate("register", username, "registered")
        /\ UNCHANGED <<committed, ACTIVE_SESSIONS>>
        /\ UNCHANGED authRest

\* ACTIVE_SESSIONS[username] = user.id
SetSession(sessions, username, user_id) ==
    [u \in DOMAIN sessions \cup {username} |->
        IF u = username THEN user_id ELSE sessions[u]]

\* POST /login
Login ==
    \E username \in Usernames, password \in Passwords :
        /\ IF \/ UsersNamed(username) = {}
              \/ \A x \in UsersNamed(username) :
                    ~verify_password(password, x.password_hash)
           THEN /\ gate' = Gate("login", username, "unauthorized")
                /\ UNCHANGED ACTIVE_SESSIONS
           ELSE LET user == CHOOSE x \in UsersNamed(username) : TRUE
                IN /\ ACTIVE_SESSIONS' = SetSession(ACTIVE_SESSIONS, username, user.id)
                   /\ gate' = [Gate("login", username, "logged_in")
                                  EXCEPT !.live = @ \cup {username}]
        /\ UNCHANGED <<committed, users>>
        /\ UNCHANGED authRest

DeleteSession_Keeps(sessions, username) == sessions

\* del ACTIVE_SESSIONS[username]
DeleteSession(sessions, username) ==
    [u \in DOMAIN sessions \ {username} |-> sessions[u]]

\* POST /logout
Logout ==
    \E username \in Usernames :
        /\ ACTIVE_SESSIONS' = IF username \in DOMAIN ACTIVE_SESSIONS
                              THEN DeleteSession(ACTIVE_SESSIONS, username)
                              ELSE ACTIVE_SESSIONS
        /\ gate' = [Gate("logout", username, "logged_out")
                       EXCEPT !.live = @ \ {username}]
        /\ UNCHANGED <<committed, users>>
        /\ UNCHANGED authRest

\* get_current_user_id(username): <<user_id>>, or <<>> for the 401.
get_current_user_id(username) ==
    IF username \notin DOMAIN ACTIVE_SESSIONS THEN <<>>
    ELSE <<ACTIVE_SESSIONS[username]>>

\* A request to one of the endpoints behind the gate.  An authorized
\* upload-sales request stores its file; the other endpoints only read.
DataRequest ==
    \E username \in Usernames, endpoint \in Endpoints :
        LET user_id == get_current_user_id(username)
        IN /\ IF user_id = <<>>
              THEN /\ gate' = [op |-> "data", username |-> username,
                               outcome |-> "unauthorized", live |-> gate.live,
                               endpoint |-> endpoint, user_id |-> 0]
                   /\ UNCHANGED committed
              ELSE /\ gate' = [op |-> "data", username |-> username,
                               outcome |-> "served", live |-> gate.live,
                               endpoint |-> endpoint, user_id |-> user_id[1]]
                   /\ committed' =
                        IF endpoint = "upload-sales"
                        THEN StoreOf(Commit(UploadRows(
                                 [db |-> SessionLocal(committed), records_added |-> 0,
                                  products_created |-> 0],
                                 user_id[1], GateUpload, 1, Len(GateUpload)).db))
                        ELSE committed
           /\ UNCHANGED <<ACTIVE_SESSIONS, users>>
           /\ UNCHANGED authRest

NextAuth == Register \/ Login \/ Logout \/ DataRequest

SpecAuth == InitAuth /\ [][NextAuth]_vars

\* C20: a data request for username u is served exactly when u's last
\* successful login has not been followed by a logout of u, and then runs as
\* the user registered under u; otherwise it is rejected as unauthorized and
\* the store and the session map stay as they were.  A failed login leaves
\* the session map unchanged, a logout without a session changes nothing,
\* and the session map maps every username in it to the id of the user with
\* that username.
C20_SessionGate ==
    [][/\ gate'.op = "data" =>
            /\ gate'.outcome = "served" <=> gate'.username \in gate.live
            /\ gate'.outcome \in {"served", "unauthorized"}
            /\ gate'.outcome = "served" =>
                 \E x \in users : x.username = gate'.username /\ x.id = gate'.user_id
            /\ gate'.outcome = "unauthorized" =>
                 committed' = committed /\ ACTIVE_SESSIONS' = ACTIVE_SESSIONS
       /\ (gate'.op = "login" /\ gate'.outcome = "unauthorized") =>
            ACTIVE_SESSIONS' = ACTIVE_SESSIONS
       /\ (gate'.op = "logout" /\ gate'.username \notin DOMAIN ACTIVE_SESSIONS) =>
            /\ ACTIVE_SESSIONS' = ACTIVE_SESSIONS
            /\ committed' = committed /\ users' = users
       /\ \A u \in DOMAIN ACTIVE_SESSIONS' :
            \E x \in users' : x.username = u /\ x.id = ACTIVE_SESSIONS'[u]]_vars

\* A user who uploaded sales while logged in is turned away after the
\* logout, while another user is still logged in.
C20_Witness ==
    /\ gate.op = "data" /\ gate.outcome = "unauthorized"
    /\ gate.endpoint = "upload-sales"
    /\ \E x \in users :
         /\ x.username = gate.username
         /\ x.username \notin DOMAIN ACTIVE_SESSIONS
         /\ \E y \in committed.sales : y.user_id = x.id
    /\ DOMAIN ACTIVE_SESSIONS # {}

====
